---------------------------- MODULE Spec2Model ----------------------------
(***************************************************************************)
(* A model of initialize.py: the once-only initialisation of a Streamlit   *)
(* session (session state, session id, logger, RAG retriever), the         *)
(* document-loading walk with its metadata enrichment and CSV merge, and   *)
(* the Windows string adjustment.                                          *)
(*                                                                         *)
(* Text is a sequence of characters; a character is a one-code-point       *)
(* token ("a", "\n", "U+3010", ...).  A Python value that may or may not   *)
(* be text is a record [t |-> "str" | "int", v |-> ...].                   *)
(***************************************************************************)
EXTENDS Integers, Sequences, FiniteSets, TLC

VARIABLES
    platform,       \* sys.platform, as text
    api_key,        \* TRUE iff os.getenv("OPENAI_API_KEY") is non-empty
    root_handlers,  \* TRUE iff the root logger already has a handler
    fs,             \* the directory tree under ct.RAG_TOP_FOLDER_PATH
    rows,           \* the contents of the documents a loader returns
    pdf_pages,      \* TRUE iff the PDF loader reports a 'page' attribute
    session_state,  \* st.session_state of every session
    logger,         \* logging.getLogger(ct.LOGGER_NAME)
    db_count,       \* number of vector stores built in the process
    lastRun,        \* the most recent call of initialize(): the session, the
                    \* session state it found, its trace, what it raised
    loaded,         \* result of the most recent load (walk or one file)
    adj             \* the value under repeated adjust_string

vars == <<platform, api_key, root_handlers, fs, rows, pdf_pages,
          session_state, logger, db_count, lastRun, loaded, adj>>

-----------------------------------------------------------------------------
(* Bounds of the model *)

MaxText == 3        \* longest text given to adjust_string
MaxRows == 3        \* most documents one loader returns
MaxEntries == 2     \* most entries in one directory listing
NumSessions == 2    \* sessions sharing the process
MaxMsgs == 1        \* most exchanges the UI records, over all sessions

-----------------------------------------------------------------------------
(* Text helpers *)

StrVal(s) == [t |-> "str", v |-> s]
IntVal(n) == [t |-> "int", v |-> n]

RECURSIVE Repeat(_, _)
Repeat(c, n) == IF n = 0 THEN <<>> ELSE <<c>> \o Repeat(c, n - 1)

\* s[:n]
Take(s, n) == IF Len(s) <= n THEN s ELSE SubSeq(s, 1, n)

\* s.startswith(p)
StartsWith(s, p) == Len(s) >= Len(p) /\ SubSeq(s, 1, Len(p)) = p

\* sep.join(parts)
RECURSIVE Join(_, _)
Join(sep, parts) ==
    IF parts = <<>> THEN <<>>
    ELSE IF Len(parts) = 1 THEN parts[1]
    ELSE parts[1] \o sep \o Join(sep, Tail(parts))

SeqsUpTo(S, n) == UNION {[1..k -> S] : k \in 0..n}

-----------------------------------------------------------------------------
(* adjust_string *)

\* The characters of the model, one of each class that NFC or cp932 treats
\* differently.
Chars == {"1", "e", "U+0301", "U+00E9", "U+304B", "U+3099", "U+304C",
          "U+F929", "U+6717", "U+00A2", "U+FFE0", "U+1F600"}

\* Canonical decomposition (unicodedata.decomposition, canonical only).
Decomp(c) ==
    CASE c = "U+00E9" -> <<"e", "U+0301">>
      [] c = "U+304C" -> <<"U+304B", "U+3099">>
      [] c = "U+F929" -> <<"U+6717">>
      [] OTHER -> <<c>>

\* Canonical combining class (unicodedata.combining).
CCC(c) ==
    CASE c = "U+0301" -> 230
      [] c = "U+3099" -> 8
      [] OTHER -> 0

\* Primary composite of a starter and a following character, "" if none.
Composite(a, b) ==
    CASE a = "e" /\ b = "U+0301" -> "U+00E9"
      [] a = "U+304B" /\ b = "U+3099" -> "U+304C"
      [] OTHER -> ""

RECURSIVE DecomposeAll(_)
DecomposeAll(s) ==
    IF s = <<>> THEN <<>> ELSE Decomp(Head(s)) \o DecomposeAll(Tail(s))

\* Canonical ordering: exchange adjacent marks until the classes ascend.
RECURSIVE CanonicalOrder(_)
CanonicalOrder(s) ==
    LET bad == {i \in 1..(Len(s) - 1) :
                    CCC(s[i + 1]) > 0 /\ CCC(s[i]) > CCC(s[i + 1])}
    IN  IF bad = {} THEN s
        ELSE LET i == CHOOSE j \in bad : \A k \in bad : j <= k
             IN  CanonicalOrder([s EXCEPT ![i] = s[i + 1], ![i + 1] = s[i]])

\* Canonical composition.  out is the text composed so far, st the index in
\* out of the last starter (0 if none), last the combining class of the last
\* character appended after that starter (-1 if none).
RECURSIVE ComposeFrom(_, _, _, _)
ComposeFrom(out, st, last, rest) ==
    IF rest = <<>> THEN out
    ELSE LET c == Head(rest)
             cls == CCC(c)
             comp == IF st = 0 THEN "" ELSE Composite(out[st], c)
         IN  IF comp # "" /\ (last < cls \/ last = -1)
             THEN ComposeFrom([out EXCEPT ![st] = comp], st, last, Tail(rest))
             ELSE IF cls = 0
                  THEN ComposeFrom(Append(out, c), Len(out) + 1, -1, Tail(rest))
                  ELSE ComposeFrom(Append(out, c), st, cls, Tail(rest))

\* unicodedata.normalize('NFC', s)
NFC(s) == ComposeFrom(<<>>, 0, -1, CanonicalOrder(DecomposeAll(s)))

\* One character through .encode("cp932", "ignore").decode("cp932"): the
\* characters cp932 cannot represent are dropped, U+00A2 comes back as the
\* full-width U+FFE0, the others come back as they were.
Cp932RoundTripChar(c) ==
    CASE c \in {"1", "e", "U+304B", "U+304C", "U+6717", "U+F929", "U+FFE0"}
            -> <<c>>
      [] c = "U+00A2" -> <<"U+FFE0">>
      [] OTHER -> <<>>

RECURSIVE Cp932RoundTrip(_)
Cp932RoundTrip(s) ==
    IF s = <<>> THEN <<>>
    ELSE Cp932RoundTripChar(Head(s)) \o Cp932RoundTrip(Tail(s))

\* Variant of IsWindows: "win" anywhere in sys.platform (as in "darwin").
IsWindowsAnywhere ==
    \E i \in 1..Len(platform) :
        i + 2 <= Len(platform) /\ SubSeq(platform, i, i + 2) = <<"w", "i", "n">>

Win == <<"w", "i", "n">>

IsWindows == StartsWith(platform, Win)

adjust_string(s) ==
    IF s.t # "str" THEN s
    ELSE IF IsWindows THEN StrVal(Cp932RoundTrip(NFC(s.v)))
    ELSE s

Platforms == {<<"w", "i", "n", "3", "2">>, <<"l", "i", "n", "u", "x">>,
              <<"d", "a", "r", "w", "i", "n">>, <<"c", "y", "g", "w", "i", "n">>}

AdjustInputs ==
    {StrVal(s) : s \in SeqsUpTo(Chars, MaxText)} \cup {IntVal(n) : n \in 0..2}

-----------------------------------------------------------------------------
(* Documents and the file system *)

PREVIEW_LEN == 100
DOCX_PAGE_CHARS == 400

Dot == "."
Sep == "/"

CSV == <<".", "c", "s", "v">>
PDF == <<".", "p", "d", "f">>
DOCX == <<".", "d", "o", "c", "x">>
TXT == <<".", "t", "x", "t">>

\* The keys of ct.SUPPORTED_EXTENSIONS.
SUPPORTED_EXTENSIONS == {PDF, DOCX, CSV, TXT}

RAG_TOP_FOLDER_PATH == <<".", "/", "d", "a", "t", "a">>

WEB_URL_LOAD_TARGETS == << <<"u", "1">>, <<"u", "2">> >>

FileNames == {<<"a">> \o CSV, <<"b">> \o PDF, <<"c">> \o DOCX, <<"t">> \o TXT,
              <<"A", ".", "C", "S", "V">>, CSV, <<"n", "o", "t", "e", "s">>}

DirNames == {<<"v", "1">> \o CSV}

File(n) == [name |-> n, isdir |-> FALSE, files |-> <<>>]
Dir(n, listing) == [name |-> n, isdir |-> TRUE, files |-> listing]

\* p.rfind(c), 1-based, 0 when c does not occur
RFind(p, c) ==
    LET hits == {i \in 1..Len(p) : p[i] = c}
    IN  IF hits = {} THEN 0 ELSE CHOOSE i \in hits : \A j \in hits : j <= i

\* os.path.basename(path)
basename(path) == SubSeq(path, RFind(path, Sep) + 1, Len(path))

\* os.path.splitext(path)[1]: from the last dot of the last component, unless
\* only dots precede it there
splitext(path) ==
    LET sepIndex == RFind(path, Sep)
        dotIndex == RFind(path, Dot)
    IN  IF /\ dotIndex > sepIndex
           /\ \E i \in (sepIndex + 1)..(dotIndex - 1) : path[i] # Dot
        THEN SubSeq(path, dotIndex, Len(path))
        ELSE <<>>

\* os.path.join(path, file)
join(path, file) == path \o <<Sep>> \o file

DigitChars == <<"0", "1", "2", "3", "4", "5", "6", "7", "8", "9">>

\* str(n) for n >= 0
RECURSIVE Digits(_)
Digits(n) ==
    IF n < 10 THEN <<DigitChars[n + 1]>>
    ELSE Digits(n \div 10) \o <<DigitChars[(n % 10) + 1]>>

Ellipsis == <<".", ".", ".">>

\* Variant of content_preview: the comparison is >= instead of >.
content_preview_ge(content) ==
    IF Len(content) >= PREVIEW_LEN
    THEN Take(content, PREVIEW_LEN) \o <<".", ".", ".">>
    ELSE content

\* the content_preview expression of file_load
content_preview(content) ==
    IF Len(content) > PREVIEW_LEN
    THEN Take(content, PREVIEW_LEN) \o Ellipsis
    ELSE content

\* metadata.update(new): new wins on the keys both have
Update(old, new) == new @@ old

\* The metadata a loader sets on its i-th document (0-based index in 'row'
\* and 'page').
LoaderMetadata(ext, path, i) ==
    IF ext = CSV THEN [source |-> StrVal(path), row |-> IntVal(i - 1)]
    ELSE IF ext = PDF /\ pdf_pages
         THEN [source |-> StrVal(path), page |-> IntVal(i - 1)]
         ELSE [source |-> StrVal(path)]

\* loader.load(): one raw document per element of rows
LoaderDocs(ext, path) ==
    [i \in 1..Len(rows) |->
        [page_content |-> rows[i], metadata |-> LoaderMetadata(ext, path, i)]]

PageLabel == <<"U+30DA", "U+30FC", "U+30B8", " ">>
EstimatedPageLabel == <<"U+63A8", "U+5B9A">> \o PageLabel
RowLabel == <<"U+884C", " ">>

\* the body of the loop over docs in file_load
Enrich(doc, file_name, path, file_extension) ==
    LET md == Update(doc.metadata,
                  [file_name |-> StrVal(file_name),
                   file_path |-> StrVal(path),
                   file_extension |-> StrVal(file_extension),
                   content_preview |-> StrVal(content_preview(doc.page_content)),
                   content_length |-> IntVal(Len(doc.page_content))])
        md2 ==
            IF file_extension = PDF /\ "page" \in DOMAIN md
            THEN LET page == md["page"].v + 1
                 IN  Update(md, [page |-> IntVal(page),
                                 page_info |-> StrVal(PageLabel \o Digits(page))])
            ELSE IF file_extension = DOCX
            THEN LET estimated_page ==
                         (Len(doc.page_content) \div DOCX_PAGE_CHARS) + 1
                 IN  Update(md, [estimated_page |-> IntVal(estimated_page),
                                 page_info |-> StrVal(EstimatedPageLabel
                                                   \o Digits(estimated_page))])
            ELSE IF file_extension = CSV /\ "row" \in DOMAIN md
            THEN Update(md, [row_info |->
                                 StrVal(RowLabel \o Digits(md["row"].v))])
            ELSE md
    IN  [page_content |-> doc.page_content, metadata |-> md2]

CsvTitle == <<"U+3010", "C", "S", "V", "U+30C7", "U+30FC", "U+30BF", "U+3011">>
CsvHeaderLabel == <<"U+30D8", "U+30C3", "U+30C0", "U+30FC", ":", " ">>
CsvRowsLabel == <<"U+30C7", "U+30FC", "U+30BF", "U+884C", ":">>
NL == <<"\n">>

CsvPrefix(header_row) == CsvTitle \o NL \o CsvHeaderLabel \o header_row

\* the synthesized document of a CSV file
combined_doc(docs, file_name, path, file_extension) ==
    LET header_row == docs[1].page_content
        data_rows == [i \in 1..(Len(docs) - 1) |-> docs[i + 1].page_content]
        combined_content ==
            CsvPrefix(header_row) \o NL \o NL \o CsvRowsLabel \o NL
                \o Join(NL, data_rows)
    IN  [page_content |-> combined_content,
         metadata |->
            [source |-> StrVal(path),
             file_name |-> StrVal(file_name),
             file_path |-> StrVal(path),
             file_extension |-> StrVal(file_extension),
             content_preview |-> StrVal(content_preview(combined_content)),
             content_length |-> IntVal(Len(combined_content)),
             total_rows |-> IntVal(Len(docs)),
             document_type |-> StrVal(<<"c", "s", "v", "_", "u", "n", "i", "f", "i", "e", "d">>),
             csv_header |-> StrVal(header_row),
             data_rows_count |-> IntVal(Len(data_rows))]]

\* Variant of Emit: the row documents are added after the unified one.
EmitWithRows(docs, file_name, path, file_extension) ==
    IF file_extension = CSV /\ docs # <<>>
    THEN <<combined_doc(docs, file_name, path, file_extension)>> \o docs
    ELSE docs

\* the documents file_load adds to docs_all, given the enriched documents
Emit(docs, file_name, path, file_extension) ==
    IF file_extension = CSV /\ docs # <<>>
    THEN <<combined_doc(docs, file_name, path, file_extension)>>
    ELSE docs

\* Variant of IsSupported: the extension is matched without regard to case.
IsSupportedAnyCase(file_extension) ==
    LET lower(c) ==
            CASE c = "C" -> "c" [] c = "S" -> "s" [] c = "V" -> "v"
              [] OTHER -> c
    IN  [i \in 1..Len(file_extension) |-> lower(file_extension[i])]
            \in SUPPORTED_EXTENSIONS

\* whether file_load takes the loading branch
IsSupported(file_extension) == file_extension \in SUPPORTED_EXTENSIONS

\* The state of a load in progress: the corpus so far, the loader
\* invocations made so far (paths and URLs, in order), the exception raised
\* ("" while none), and the invocation the environment makes fail.
NoFault == [at |-> "none", n |-> 0]

NewLoad(fault) == [docs_all |-> <<>>, loads |-> <<>>, raised |-> "", fault |-> fault]

FileLoads(w) == SelectSeq(w.loads, LAMBDA l : l.kind = "file")

file_load(path, w) ==
    LET file_extension == splitext(path)
        file_name == basename(path)
    IN  IF w.raised # "" THEN w
        ELSE IF ~IsSupported(file_extension) THEN w
        ELSE LET called == [w EXCEPT !.loads =
                                Append(@, [kind |-> "file", target |-> path])]
             IN  IF w.fault.at = "file" /\ w.fault.n = Len(FileLoads(called))
                 THEN [called EXCEPT !.raised = "LoaderError"]
                 ELSE LET raw == LoaderDocs(file_extension, path)
                          docs == [i \in 1..Len(raw) |->
                                      Enrich(raw[i], file_name, path,
                                             file_extension)]
                      IN  [called EXCEPT !.docs_all =
                              @ \o Emit(docs, file_name, path, file_extension)]

RECURSIVE recursive_file_check(_, _, _)
RECURSIVE WalkListing(_, _, _)

\* node is the file-system entry that path names
recursive_file_check(path, node, w) ==
    IF node.isdir
    THEN WalkListing(path, node.files, w)
    ELSE file_load(path, w)

\* the loop over os.listdir(path)
WalkListing(path, files, w) ==
    IF files = <<>> THEN w
    ELSE WalkListing(path, Tail(files),
            recursive_file_check(join(path, Head(files).name), Head(files), w))

\* WebBaseLoader(web_url).load(): one document per page
WebDocs(web_url) ==
    <<[page_content |-> <<"w", "e", "b">> \o web_url,
       metadata |-> [source |-> StrVal(web_url)]]>>

WebLoads(w) == SelectSeq(w.loads, LAMBDA l : l.kind = "web")

RECURSIVE WebLoop(_, _, _)
WebLoop(urls, web_docs_all, w) ==
    IF w.raised # "" THEN w
    ELSE IF urls = <<>> THEN [w EXCEPT !.docs_all = @ \o web_docs_all]
    ELSE LET called == [w EXCEPT !.loads =
                            Append(@, [kind |-> "web", target |-> Head(urls)])]
         IN  IF w.fault.at = "web" /\ w.fault.n = Len(WebLoads(called))
             THEN [called EXCEPT !.raised = "WebError"]
             ELSE WebLoop(Tail(urls), web_docs_all \o WebDocs(Head(urls)), called)

load_data_sources(fault) ==
    WebLoop(WEB_URL_LOAD_TARGETS, <<>>,
            recursive_file_check(RAG_TOP_FOLDER_PATH, fs, NewLoad(fault)))

-----------------------------------------------------------------------------
(* Session state, the logger and the retriever *)

RETRIEVER_K == 7

Sessions == 1..NumSessions

NoRetriever == [search_k |-> 0, db |-> 0, n_docs |-> 0]

\* st.session_state of a session that has run nothing yet; keys holds the
\* names that are "in st.session_state"
NewSessionState ==
    [keys |-> {}, session_id |-> <<>>, messages |-> <<>>,
     chat_history |-> <<>>, retriever |-> NoRetriever]

NewLogger == [handlers |-> <<>>, level |-> "NOTSET"]

\* What the environment makes fail in one call: the n-th file loader, the
\* n-th web fetch, or one of the other steps.
\* the file loads of the walk when nothing fails
MaxFileFault ==
    Len(FileLoads(recursive_file_check(RAG_TOP_FOLDER_PATH, fs,
                                       NewLoad(NoFault))))

LoggerFaults == {[at |-> x, n |-> 0] : x \in {"makedirs", "log_file"}}

PipelineFaults ==
    {[at |-> "file", n |-> k] : k \in 1..MaxFileFault}
        \cup {[at |-> "web", n |-> k] : k \in 1..Len(WEB_URL_LOAD_TARGETS)}
        \cup {[at |-> x, n |-> 0] : x \in {"embeddings", "split", "index"}}

Faults == {NoFault} \cup LoggerFaults \cup PipelineFaults

\* The environment fails only a step the call gets to: the log file is
\* opened when no handler exists yet, the pipeline runs when the session has
\* no retriever, and what follows the key check runs when the key is set.
FaultsFor(s) ==
    {f \in Faults :
        \/ f.at \in {"none", "makedirs"}
        \/ f.at = "log_file" /\ logger.handlers = <<>> /\ ~root_handlers
        \/ /\ f.at \in {"file", "web"}
           /\ "retriever" \notin session_state[s].keys
        \/ /\ f.at \in {"embeddings", "split", "index"}
           /\ "retriever" \notin session_state[s].keys
           /\ api_key}

\* One entry of the trace of a call: a log line or the invocation of a
\* collaborator.
LogEv(level, msg, kind, via, sid) ==
    [ev |-> "log", level |-> level, what |-> msg, kind |-> kind, via |-> via,
     sid |-> sid, arg |-> <<>>]

CallEv(target, arg) ==
    [ev |-> "call", level |-> "", what |-> target, kind |-> "", via |-> "",
     sid |-> <<>>, arg |-> arg]

\* Variant of hasHandlers: only the root logger's handlers are consulted.
hasHandlersRootOnly(lg) == root_handlers

\* logger.hasHandlers(): the logger's own handlers or, by propagation, the
\* root logger's
hasHandlers(lg) == lg.handlers # <<>> \/ root_handlers

\* logger.isEnabledFor(level): the root logger's level is WARNING
isEnabledFor(lg, level) == level = "ERROR" \/ lg.level = "INFO"

\* logger.info / logger.error: one line per handler that receives the
\* record; the handler of last resort prints it when there is none
Emit_log(lg, level, msg, kind) ==
    IF ~isEnabledFor(lg, level) THEN <<>>
    ELSE [i \in 1..Len(lg.handlers) |->
              LogEv(level, msg, kind, "file", lg.handlers[i].formatter_sid)]
         \o (IF root_handlers THEN <<LogEv(level, msg, kind, "root", <<>>)>>
             ELSE <<>>)
         \o (IF ~hasHandlers(lg)
             THEN <<LogEv(level, msg, kind, "lastResort", <<>>)>>
             ELSE <<>>)

\* The context a call runs in: the session's state, the process's logger and
\* store counter, the trace so far, the exception in flight ("" if none)
\* with the function that raised it, and docs_all of initialize_retriever.
Context(s, fault) ==
    [who |-> s, ss |-> session_state[s], logger |-> logger,
     db_count |-> db_count,
     fault |-> fault, events |-> <<>>, raised |-> "", raised_in |-> "",
     docs |-> <<>>]

Raise(ctx, kind, fn) == [ctx EXCEPT !.raised = kind, !.raised_in = fn]

Has(ctx, key) == key \in ctx.ss.keys

\* Variant of initialize_session_state: the presence test is missing.
initialize_session_state_always(ctx) ==
    IF ctx.raised # "" THEN ctx
    ELSE [ctx EXCEPT !.ss.keys = @ \cup {"messages", "chat_history"},
                     !.ss.messages = <<>>,
                     !.ss.chat_history = <<>>]

initialize_session_state(ctx) ==
    IF ctx.raised # "" THEN ctx
    ELSE IF ~Has(ctx, "messages")
    THEN [ctx EXCEPT !.ss.keys = @ \cup {"messages", "chat_history"},
                     !.ss.messages = <<>>,
                     !.ss.chat_history = <<>>]
    ELSE ctx

\* uuid4().hex in session s: a token no other session gets
Uuid(s) == <<"i", "d">> \o Digits(s)

initialize_session_id(ctx) ==
    IF ctx.raised # "" THEN ctx
    ELSE IF ~Has(ctx, "session_id")
    THEN [ctx EXCEPT !.ss.keys = @ \cup {"session_id"},
                     !.ss.session_id = Uuid(ctx.who)]
    ELSE ctx

initialize_logger(ctx) ==
    IF ctx.raised # "" THEN ctx
    ELSE IF ctx.fault.at = "makedirs"
    THEN Raise(ctx, "OSError", "initialize_logger")
    ELSE IF hasHandlers(ctx.logger) THEN ctx
    ELSE IF ctx.fault.at = "log_file"
    THEN Raise(ctx, "OSError", "initialize_logger")
    ELSE IF ~Has(ctx, "session_id")
    THEN Raise(ctx, "AttributeError", "initialize_logger")
    ELSE [ctx EXCEPT !.logger =
            [handlers |-> Append(@.handlers,
                                 [formatter_sid |-> ctx.ss.session_id]),
             level |-> "INFO"]]

\* the loop applying adjust_string to every document
Sanitize(docs) ==
    [i \in 1..Len(docs) |->
        [page_content |-> adjust_string(StrVal(docs[i].page_content)).v,
         metadata |-> [k \in DOMAIN docs[i].metadata |->
                          adjust_string(docs[i].metadata[k])]]]

Info(ctx, msg) ==
    [ctx EXCEPT !.events = @ \o Emit_log(ctx.logger, "INFO", msg, "")]

Call(ctx, target) == [ctx EXCEPT !.events = Append(@, CallEv(target, <<>>))]

\* Variant of Fail: the error is logged and not raised again.
FailSwallowed(ctx, kind) ==
    [ctx EXCEPT !.events =
        @ \o Emit_log(ctx.logger, "ERROR", "initialize_retriever error", kind)]

\* the except clause of initialize_retriever
Fail(ctx, kind) ==
    Raise([ctx EXCEPT !.events =
               @ \o Emit_log(ctx.logger, "ERROR", "initialize_retriever error",
                             kind)],
          kind, "initialize_retriever")

\* Variant of PipelineSteps: the key is checked after the embedding model is
\* set up.
PipelineStepsKeyLate ==
    <<"load", "sanitize", "embeddings", "api_key", "split", "index", "store">>

\* The steps of the try block of initialize_retriever, in order.
PipelineSteps ==
    <<"load", "sanitize", "api_key", "embeddings", "split", "index", "store">>

\* One step of the try block.
Step(name, ctx) ==
    CASE name = "load" ->
            LET started == Info(ctx, "load start")
                w == load_data_sources(ctx.fault)
                called == [started EXCEPT !.events =
                              @ \o [i \in 1..Len(w.loads) |->
                                       CallEv(IF w.loads[i].kind = "web"
                                              THEN "WebBaseLoader.load"
                                              ELSE "loader.load",
                                              w.loads[i].target)]]
            IN  IF w.raised # "" THEN Fail(called, w.raised)
                ELSE Info([called EXCEPT !.docs = w.docs_all], "load done")
      [] name = "sanitize" -> [ctx EXCEPT !.docs = Sanitize(@)]
      [] name = "api_key" ->
            IF ~api_key THEN Fail(ctx, "ValueError")
            ELSE Info(ctx, "api key set")
      [] name = "embeddings" ->
            LET called == Call(Info(ctx, "embeddings start"), "OpenAIEmbeddings")
            IN  IF ctx.fault.at = "embeddings" THEN Fail(called, "EmbeddingError")
                ELSE Info(called, "embeddings done")
      [] name = "split" ->
            LET called == Call(Info(ctx, "split start"), "split_documents")
            IN  IF ctx.fault.at = "split" THEN Fail(called, "SplitError")
                ELSE Info(called, "split done")
      [] name = "index" ->
            LET called == Call(Info(ctx, "store start"), "Chroma.from_documents")
            IN  IF ctx.fault.at = "index" THEN Fail(called, "IndexError")
                ELSE Info([called EXCEPT !.db_count = @ + 1], "store done")
      [] name = "store" ->
            Info([ctx EXCEPT !.ss.keys = @ \cup {"retriever"},
                             !.ss.retriever =
                                 [search_k |-> RETRIEVER_K,
                                  db |-> ctx.ss.retriever.db + 1,
                                  n_docs |-> Len(ctx.docs)]],
                 "retriever done")

RECURSIVE RunSteps(_, _)
RunSteps(steps, ctx) ==
    IF steps = <<>> \/ ctx.raised # "" THEN ctx
    ELSE LET next == CHOOSE c \in {Step(Head(steps), ctx)} : TRUE
         IN  RunSteps(Tail(steps), next)

\* Variant of RetrieverPresent: the early return is never taken.
RetrieverNeverPresent(ctx) == FALSE

\* the early return of initialize_retriever
RetrieverPresent(ctx) == Has(ctx, "retriever")

initialize_retriever(ctx) ==
    IF ctx.raised # "" THEN ctx
    ELSE IF RetrieverPresent(ctx) THEN ctx
    ELSE [RunSteps(PipelineSteps, ctx) EXCEPT !.docs = <<>>]

initialize(ctx) ==
    LET a == CHOOSE c \in {initialize_session_state(ctx)} : TRUE
        b == CHOOSE c \in {initialize_session_id(a)} : TRUE
        c == CHOOSE c \in {initialize_logger(b)} : TRUE
    IN  initialize_retriever(c)

\* The state after a call that ended in ctx.  Session state, the logger and
\* the store counter keep what the call did to them, also when it raised.
Commit(s, ctx) ==
    /\ session_state' = [session_state EXCEPT ![s] = ctx.ss]
    /\ logger' = ctx.logger
    /\ db_count' = ctx.db_count
    /\ lastRun' = [who |-> s, before |-> session_state[s],
                   events |-> ctx.events, raised |-> ctx.raised,
                   raised_in |-> ctx.raised_in]
    /\ UNCHANGED <<platform, api_key, root_handlers, fs, rows, pdf_pages,
                   loaded, adj>>

\* a page render of session s: main.py calls initialize() on every rerun
Initialize(s) ==
    \E fault \in FaultsFor(s) :
        \E ctx \in {initialize(Context(s, fault))} : Commit(s, ctx)

RECURSIVE Sum(_, _)
Sum(f, S) ==
    IF S = {} THEN 0
    ELSE LET x == CHOOSE y \in S : TRUE IN f[x] + Sum(f, S \ {x})

\* the entries the UI has appended so far, over all sessions
Appended == Sum([s \in Sessions |-> Len(session_state[s].messages)], Sessions)

\* the UI records one exchange in both conversation logs
UIAppend(s) ==
    /\ {"messages", "chat_history"} \subseteq session_state[s].keys
    /\ Appended < MaxMsgs
    /\ session_state' =
           [session_state EXCEPT ![s].messages = Append(@, "message"),
                                 ![s].chat_history = Append(@, "exchange")]
    /\ UNCHANGED <<platform, api_key, root_handlers, fs, rows, pdf_pages,
                   logger, db_count, lastRun, loaded, adj>>

ExampleFs ==
    Dir(RAG_TOP_FOLDER_PATH,
        <<File(<<"a">> \o CSV),
          Dir(<<"v", "1">> \o CSV, <<File(<<"b">> \o PDF), File(CSV)>>),
          File(<<"A", ".", "C", "S", "V">>)>>)

ExampleRows == << <<"h">>, <<"U+00E9">> >>

NoRun ==
    [who |-> 0, before |-> NewSessionState, events |-> <<>>, raised |-> "",
     raised_in |-> ""]

NoLoad == NewLoad(NoFault)

NoAdjust == [orig |-> IntVal(0), prev |-> IntVal(0), cur |-> IntVal(0), n |-> 0]

Init ==
    /\ platform = <<"l", "i", "n", "u", "x">>
    /\ api_key \in BOOLEAN
    /\ root_handlers \in BOOLEAN
    /\ fs = ExampleFs
    /\ rows = ExampleRows
    /\ pdf_pages = TRUE
    /\ session_state = [s \in Sessions |-> NewSessionState]
    /\ logger = NewLogger
    /\ db_count = 0
    /\ lastRun = NoRun
    /\ loaded = NoLoad
    /\ adj = NoAdjust

Next ==
    \E s \in Sessions :
        \/ Initialize(s)
        \/ UIAppend(s)

Spec == Init /\ [][Next]_vars

-----------------------------------------------------------------------------
(* The load on its own, over the trees and loader results of the bounds *)

Contents ==
    {<<>>, <<"h">>, <<"r">>, Repeat("x", PREVIEW_LEN), Repeat("x", PREVIEW_LEN + 1)}

\* a listing names each entry once
DistinctNames(listing) ==
    \A i, j \in 1..Len(listing) : listing[i].name = listing[j].name => i = j

Files == {File(n) : n \in FileNames}

Level1 == Files \cup {Dir(d, <<>>) : d \in DirNames}

Level2 == Files \cup {Dir(d, l) : d \in DirNames, l \in SeqsUpTo(Level1, 1)}

Trees ==
    {Dir(RAG_TOP_FOLDER_PATH, l) :
        l \in {x \in SeqsUpTo(Level2, MaxEntries) : DistinctNames(x)}}
        \cup {File(RAG_TOP_FOLDER_PATH)}

InitLoad ==
    /\ \/ /\ fs \in Trees
          /\ rows \in {<<>>, << <<"h">>, <<"r">> >>}
          /\ pdf_pages = TRUE
       \/ /\ fs \in {Dir(RAG_TOP_FOLDER_PATH, <<f>>) : f \in Files}
          /\ rows \in SeqsUpTo(Contents, MaxRows)
          /\ pdf_pages \in BOOLEAN
    /\ platform = <<"l", "i", "n", "u", "x">>
    /\ api_key = TRUE
    /\ root_handlers = FALSE
    /\ session_state = [s \in Sessions |-> NewSessionState]
    /\ logger = NewLogger
    /\ db_count = 0
    /\ lastRun = NoRun
    /\ loaded = NoLoad
    /\ adj = NoAdjust

LoadFaults ==
    {NoFault}
        \cup {[at |-> "file", n |-> k] : k \in 1..MaxFileFault}
        \cup {[at |-> "web", n |-> k] : k \in 1..Len(WEB_URL_LOAD_TARGETS)}

\* load_data_sources() called once
Load ==
    /\ loaded.loads = <<>>
    /\ \E fault \in LoadFaults : loaded' = load_data_sources(fault)
    /\ UNCHANGED <<platform, api_key, root_handlers, fs, rows, pdf_pages,
                   session_state, logger, db_count, lastRun, adj>>

NextLoad == Load

SpecLoad == InitLoad /\ [][NextLoad]_vars

-----------------------------------------------------------------------------
(* adjust_string on its own, applied twice to one value *)

\* adj.cur is the value, adj.prev the value before the latest application,
\* adj.orig the value given, adj.n the number of applications (at most 2).
InitAdjust ==
    /\ platform \in Platforms
    /\ \E x \in AdjustInputs : adj = [orig |-> x, prev |-> x, cur |-> x, n |-> 0]
    /\ api_key = TRUE
    /\ root_handlers = FALSE
    /\ fs = ExampleFs
    /\ rows = ExampleRows
    /\ pdf_pages = TRUE
    /\ session_state = [s \in Sessions |-> NewSessionState]
    /\ logger = NewLogger
    /\ db_count = 0
    /\ lastRun = NoRun
    /\ loaded = NoLoad

Adjust ==
    /\ adj.n < 2
    /\ adj' = [adj EXCEPT !.prev = adj.cur, !.cur = adjust_string(adj.cur),
                          !.n = adj.n + 1]
    /\ UNCHANGED <<platform, api_key, root_handlers, fs, rows, pdf_pages,
                   session_state, logger, db_count, lastRun, loaded>>

NextAdjust == Adjust

SpecAdjust == InitAdjust /\ [][NextAdjust]_vars

-----------------------------------------------------------------------------
(* Properties *)

IsPrefix(a, b) == Len(a) <= Len(b) /\ SubSeq(b, 1, Len(a)) = a

CallsOf(r) == SelectSeq(r.events, LAMBDA e : e.ev = "call")

CallNames(r) == [i \in 1..Len(CallsOf(r)) |-> CallsOf(r)[i].what]

ErrorsOf(r) ==
    SelectSeq(r.events, LAMBDA e : e.ev = "log" /\ e.level = "ERROR")

\* the collaborator invocations of a complete run over ExampleFs
FullPipelineCalls ==
    <<"loader.load", "loader.load", "WebBaseLoader.load", "WebBaseLoader.load",
      "OpenAIEmbeddings", "split_documents", "Chroma.from_documents">>

HasRetriever(s) == "retriever" \in session_state[s].keys

\* C1: a call of initialize_retriever() that finds a retriever in session
\* state invokes no collaborator, writes no log line and leaves the stored
\* retriever as it is; so each session builds its vector store exactly once
\* (the stores built in the process are as many as the sessions that hold a
\* retriever, and every stored retriever is the first its session built).
C1_RetrieverBuiltOnce ==
    /\ ("retriever" \in lastRun.before.keys =>
            /\ lastRun.events = <<>>
            /\ HasRetriever(lastRun.who)
            /\ session_state[lastRun.who].retriever = lastRun.before.retriever)
    /\ db_count = Cardinality({s \in Sessions : HasRetriever(s)})
    /\ \A s \in Sessions :
           HasRetriever(s) =>
               /\ session_state[s].retriever.db = 1
               /\ session_state[s].retriever.search_k = 7

\* a second call of a session that already holds its retriever has returned
C1_Witness ==
    /\ "retriever" \in lastRun.before.keys
    /\ lastRun.raised = ""
    /\ lastRun.events = <<>>

\* C2: a run of initialize_retriever() that fails writes exactly one ERROR
\* line, its last, naming the exception's kind, raises that exception and
\* stores no retriever; an ERROR line is written only by a run that raises;
\* a run that finds no retriever starts the pipeline from its first loader;
\* and a retriever appears only in a run that raised nothing and invoked
\* every collaborator of the pipeline.
C2_FailureLeavesNothing ==
    LET r == lastRun
    IN  /\ (r.raised_in = "initialize_retriever" =>
                /\ ~HasRetriever(r.who)
                /\ Len(ErrorsOf(r)) = 1
                /\ r.events[Len(r.events)] = ErrorsOf(r)[1]
                /\ ErrorsOf(r)[1].kind = r.raised)
        /\ (ErrorsOf(r) # <<>> =>
                r.raised # "" /\ r.raised_in = "initialize_retriever")
        /\ ((r.who # 0 /\ "retriever" \notin r.before.keys
                /\ r.raised_in # "initialize_logger") =>
                /\ CallNames(r) # <<>>
                /\ IsPrefix(CallNames(r), FullPipelineCalls))
        /\ ((r.who # 0 /\ "retriever" \notin r.before.keys
                /\ HasRetriever(r.who)) =>
                r.raised = "" /\ CallNames(r) = FullPipelineCalls)

\* the vector store failed to build in a session that had no retriever
C2_Witness ==
    /\ lastRun.raised = "IndexError"
    /\ lastRun.raised_in = "initialize_retriever"
    /\ ~HasRetriever(lastRun.who)

ExternalCollaborators ==
    {"WebBaseLoader.load", "OpenAIEmbeddings", "Chroma.from_documents"}

\* C3 as claimed: a run that raises the missing-key error has invoked no
\* external collaborator (web fetch, embedding, vector store).
C3_NoExternalCallBeforeKeyError ==
    lastRun.raised = "ValueError" =>
        \A i \in 1..Len(lastRun.events) :
            lastRun.events[i].what \notin ExternalCollaborators

\* C3, amended: without the API key no run invokes the embedding, chunking or
\* vector-store collaborators; a run whose loading succeeds raises the
\* missing-key error, and by then it has invoked the file loaders and has
\* fetched every configured web page.
C3_KeyErrorBeforeEmbedding ==
    /\ (~api_key =>
            \A i \in 1..Len(lastRun.events) :
                lastRun.events[i].what \notin
                    {"OpenAIEmbeddings", "split_documents",
                     "Chroma.from_documents"})
    /\ ((~api_key /\ CallsOf(lastRun) # <<>>) =>
            lastRun.raised \in {"ValueError", "LoaderError", "WebError"})
    /\ (lastRun.raised = "ValueError" =>
            /\ ~api_key
            /\ CallNames(lastRun) = SubSeq(FullPipelineCalls, 1, 4)
            /\ [i \in 1..Len(WEB_URL_LOAD_TARGETS) |->
                    CallsOf(lastRun)[i + 2].arg] = WEB_URL_LOAD_TARGETS)

C3_Witness == lastRun.raised = "ValueError"

\* C4 as claimed: every line the configured handler writes carries the
\* session id of the session whose call emitted it.
C4_LinesCarryCurrentSession ==
    \A i \in 1..Len(lastRun.events) :
        (lastRun.events[i].ev = "log" /\ lastRun.events[i].via = "file") =>
            lastRun.events[i].sid = session_state[lastRun.who].session_id

\* C5: the logger never has more than one handler, and a call made while it
\* has one leaves the logger (handlers, formatter, level) as it is.
C5_LoggerConfiguredOnce ==
    [][/\ Len(logger'.handlers) <= 1
       /\ (logger.handlers # <<>> => logger' = logger)]_vars

\* a session other than the one that configured the logger has called
C5_Witness ==
    /\ Len(logger.handlers) = 1
    /\ lastRun.who # 0
    /\ "session_id" \in session_state[lastRun.who].keys
    /\ logger.handlers[1].formatter_sid # session_state[lastRun.who].session_id

\* C6: a session id, once set, stays; messages and chat_history, once
\* created, only grow; they are created empty; and every call of initialize()
\* leaves the session with all three.
C6_SessionStateKept ==
    [][\A s \in Sessions :
          LET old == session_state[s]
              new == session_state'[s]
          IN  /\ ("session_id" \in old.keys =>
                      "session_id" \in new.keys
                          /\ new.session_id = old.session_id)
              /\ ("messages" \in old.keys =>
                      /\ {"messages", "chat_history"} \subseteq new.keys
                      /\ IsPrefix(old.messages, new.messages)
                      /\ IsPrefix(old.chat_history, new.chat_history))
              /\ ("messages" \notin old.keys /\ "messages" \in new.keys =>
                      new.messages = <<>> /\ new.chat_history = <<>>)
              /\ ((lastRun' # lastRun /\ lastRun'.who = s) =>
                      {"session_id", "messages", "chat_history"}
                          \subseteq new.keys)]_vars

\* initialize() has run in a session whose conversation logs were not empty
C6_Witness ==
    /\ lastRun.before.messages # <<>>
    /\ lastRun.before.chat_history # <<>>
    /\ session_state[lastRun.who].messages = lastRun.before.messages

\* the documents of the corpus that file_load added: all but the web pages,
\* which a load that raised nothing appended last
FileDocs(w) ==
    IF w.raised = ""
    THEN SubSeq(w.docs_all, 1, Len(w.docs_all) - Len(WEB_URL_LOAD_TARGETS))
    ELSE w.docs_all

\* the paths whose loader returned its documents
LoadedPaths(w) ==
    {FileLoads(w)[i].target :
        i \in {j \in 1..Len(FileLoads(w)) :
                  ~(w.raised = "LoaderError" /\ j = Len(FileLoads(w)))}}

DocsOf(w, path) ==
    SelectSeq(FileDocs(w), LAMBDA d : d.metadata["file_path"] = StrVal(path))

CsvPaths(w) ==
    {path \in LoadedPaths(w) :
        Len(path) >= 4 /\ SubSeq(path, Len(path) - 3, Len(path)) = CSV}

\* C7: a .csv file whose loader returned N >= 2 rows has exactly one
\* document in the corpus: the unified one, with total_rows = N,
\* data_rows_count = N - 1, csv_header the first row, and content that
\* starts with the title line and the header line; no row document is there.
C7_CsvMerged ==
    Len(rows) >= 2 =>
        \A path \in CsvPaths(loaded) :
            /\ Len(DocsOf(loaded, path)) = 1
            /\ LET d == DocsOf(loaded, path)[1]
               IN  /\ d.metadata["document_type"] =
                          StrVal(<<"c", "s", "v", "_", "u", "n", "i", "f", "i", "e", "d">>)
                   /\ d.metadata["total_rows"] = IntVal(Len(rows))
                   /\ d.metadata["data_rows_count"] = IntVal(Len(rows) - 1)
                   /\ d.metadata["csv_header"] = StrVal(rows[1])
                   /\ IsPrefix(<<"U+3010", "C", "S", "V", "U+30C7", "U+30FC",
                                 "U+30BF", "U+3011", "\n", "U+30D8", "U+30C3",
                                 "U+30C0", "U+30FC", ":", " ">> \o rows[1],
                               d.page_content)
                   /\ "row" \notin DOMAIN d.metadata

C7_Witness ==
    /\ Len(rows) = MaxRows
    /\ CsvPaths(loaded) # {}
    /\ loaded.raised = ""

\* the tree without the files whose extension is no key of the mapping
RECURSIVE PruneListing(_)
PruneListing(listing) ==
    IF listing = <<>> THEN <<>>
    ELSE LET h == Head(listing)
         IN  (IF h.isdir THEN <<Dir(h.name, PruneListing(h.files))>>
              ELSE IF splitext(h.name) \in SUPPORTED_EXTENSIONS THEN <<h>>
              ELSE <<>>)
             \o PruneListing(Tail(listing))

PrunedFs == IF fs.isdir THEN Dir(fs.name, PruneListing(fs.files)) ELSE fs

\* C8: no loader is invoked for a file whose extension is no key of the
\* mapping, and the load gives what it gives over the tree without those
\* files: the same corpus in the same order, the same invocations.
C8_UnsupportedSkipped ==
    loaded.loads # <<>> =>
        /\ \A i \in 1..Len(FileLoads(loaded)) :
               splitext(FileLoads(loaded)[i].target) \in SUPPORTED_EXTENSIONS
        /\ loaded = WebLoop(WEB_URL_LOAD_TARGETS, <<>>,
                            recursive_file_check(RAG_TOP_FOLDER_PATH, PrunedFs,
                                                 NewLoad(loaded.fault)))

\* a tree with files of both kinds has been loaded
C8_Witness ==
    /\ PrunedFs # fs
    /\ FileDocs(loaded) # <<>>
    /\ loaded.raised = ""

\* C9: every document file_load added has the five universal keys, with
\* content_length the length of its content and content_preview the content
\* when that is at most 100 characters long, else its first 100 characters
\* followed by "...".
C9_UniversalKeys ==
    \A i \in 1..Len(FileDocs(loaded)) :
        LET d == FileDocs(loaded)[i]
            c == d.page_content
        IN  /\ {"file_name", "file_path", "file_extension", "content_preview",
                "content_length"} \subseteq DOMAIN d.metadata
            /\ d.metadata["content_length"] = IntVal(Len(c))
            /\ d.metadata["content_preview"] =
                   StrVal(IF Len(c) <= 100 THEN c
                          ELSE SubSeq(c, 1, 100) \o <<".", ".", ".">>)
            /\ d.metadata["file_name"].t = "str"
            /\ d.metadata["file_path"].t = "str"
            /\ d.metadata["file_extension"].t = "str"

\* a unified CSV document longer than the preview has been added
C9_Witness ==
    \E i \in 1..Len(FileDocs(loaded)) :
        /\ "document_type" \in DOMAIN FileDocs(loaded)[i].metadata
        /\ Len(FileDocs(loaded)[i].page_content) > 100

\* C10: applying adjust_string to its own result changes nothing; a value
\* that is not text comes back as it was; and off Windows so does text.
C10_AdjustIdempotent ==
    /\ (adj.n = 2 => adj.cur = adj.prev)
    /\ ((adj.n >= 1 /\ adj.orig.t # "str") => adj.cur = adj.orig)
    /\ ((adj.n >= 1 /\ ~(Len(platform) >= 3
                          /\ SubSeq(platform, 1, 3) = <<"w", "i", "n">>)) =>
            adj.cur = adj.orig)

\* on Windows the first application changed the text, the second did not
C10_Witness ==
    /\ adj.n = 2
    /\ adj.orig.t = "str"
    /\ adj.prev # adj.orig
    /\ adj.prev.v # <<>>

=============================================================================
